---- MODULE Spec2Model ----
(***************************************************************************)
(* Bet bookkeeping engine of soccer_betting.py: the sqlite store (tables   *)
(* bets, quotes, bankroll), the schema migration of init_db, the bet CRUD  *)
(* functions, the settlement arithmetic and the bankroll ledger.           *)
(*                                                                         *)
(* Numbers.  The amounts the forms submit have at most two decimals; they  *)
(* are written as fixed-point integers: odds in hundredths (One = 1.0),    *)
(* stakes and balances in whole currency units, profit_loss in hundredths  *)
(* of a currency unit (stake * odds has two decimals).  Sums, differences  *)
(* and quotients of them are exact here.  calculate_parlay_odds rounds a   *)
(* product of floats to two decimals, where the last bit of the product    *)
(* decides a tie: there the floats are modelled bit for bit.               *)
(*                                                                         *)
(* SQL values.  A cell holds NULL, a text or a number; the three are       *)
(* records of one shape so that any two cells can be compared.             *)
(***************************************************************************)
EXTENDS Integers, Sequences, FiniteSets, TLC

VARIABLES
    bets,       \* table bets:     [exists, columns, rows, seq]
    quotes,     \* table quotes:   [exists, rows, seq]
    bankroll,   \* table bankroll: [exists, rows]  (rows: id -> balance)
    last,       \* the last call made and what it returned to its caller
    tabs        \* the browser sessions: tab -> [pc, call, current_bankroll, pending]

vars == <<bets, quotes, bankroll, last, tabs>>

store == <<bets, quotes, bankroll>>

----------------------------------------------------------------------------
(* Bounds of the model *)

MaxId == 2          \* bets inserted over the life of the store
MaxQuoteId == 1     \* quotes inserted over the life of the store
MaxBalance == 10    \* |balance| explored

(* Fixed point: the literal 1.0 in hundredths *)
One == 100

----------------------------------------------------------------------------
(* SQL cell values *)

Null == [t |-> "null", s |-> "", n |-> 0]

Text(s) == [t |-> "text", s |-> s, n |-> 0]

Num(n) == [t |-> "num", s |-> "", n |-> n]

Range(f) == {f[i] : i \in DOMAIN f}

IndexOf(seq, x) == CHOOSE i \in DOMAIN seq : seq[i] = x

Min(a, b) == IF a < b THEN a ELSE b

----------------------------------------------------------------------------
(* Schema *)

\* CREATE TABLE bets (...): the column order of a table init_db creates
CreateTableColumns ==
    <<"id", "date", "team_a", "team_b", "bet_type", "sport", "stake",
      "odds", "result", "profit_loss", "notes", "is_parlay", "parlay_legs">>

\* new_columns of init_db, in the dict's iteration order
new_columns == <<"team_a", "team_b", "bet_type", "sport", "is_parlay", "parlay_legs">>

\* the column names get_bet_by_id zips onto the row that SELECT * returns
columns_of_get_bet ==
    <<"id", "date", "team_a", "team_b", "bet_type", "sport", "stake",
      "odds", "result", "profit_loss", "notes", "is_parlay", "parlay_legs">>

NoTable == [exists |-> FALSE, columns |-> <<>>, rows |-> <<>>, seq |-> 0]

NoRows == [exists |-> FALSE, rows |-> <<>>]

\* ALTER TABLE bets ADD COLUMN c <type>: no DEFAULT clause, so the rows that
\* exist hold NULL in the new column; the column goes after the existing ones
AlterTableAddColumn(b, c) ==
    [b EXCEPT !.columns = Append(b.columns, c),
              !.rows = [i \in DOMAIN b.rows |->
                          [k \in (DOMAIN b.rows[i]) \cup {c} |->
                              IF k = c THEN Null ELSE b.rows[i][k]]]]

RECURSIVE AddMissingColumns(_, _)
\* for column_name in new_columns: if not in existing_columns: ALTER TABLE
AddMissingColumns(b, cs) ==
    IF cs = <<>> THEN b
    ELSE AddMissingColumns(
            IF Head(cs) \in Range(b.columns) THEN b
            ELSE AlterTableAddColumn(b, Head(cs)),
            Tail(cs))

\* the bets part of init_db
init_db_bets(b) ==
    IF b.exists
    THEN AddMissingColumns(b, new_columns)
    ELSE [exists |-> TRUE, columns |-> CreateTableColumns, rows |-> <<>>, seq |-> 0]

\* CREATE TABLE IF NOT EXISTS quotes
init_db_quotes(q) ==
    IF q.exists THEN q ELSE [exists |-> TRUE, rows |-> <<>>, seq |-> 0]

\* mutant: INSERT OR REPLACE, the balance is set to 0 on every run
init_db_bankroll_replace(k) ==
    LET t == IF k.exists THEN k ELSE [exists |-> TRUE, rows |-> <<>>]
    IN  [t EXCEPT !.rows = [i \in {1} |-> 0]]

\* CREATE TABLE IF NOT EXISTS bankroll; INSERT OR IGNORE (1, 0)
init_db_bankroll(k) ==
    LET t == IF k.exists THEN k ELSE [exists |-> TRUE, rows |-> <<>>]
    IN  IF 1 \in DOMAIN t.rows THEN t
        ELSE [t EXCEPT !.rows = [i \in {1} |-> 0]]

\* main() calls init_db() at the start of every run, before any other call:
\* the other operations find the tables and all thirteen columns in place
SchemaReady ==
    /\ bets.exists
    /\ Range(CreateTableColumns) \subseteq Range(bets.columns)
    /\ quotes.exists
    /\ bankroll.exists

----------------------------------------------------------------------------
(* Settlement engine *)

\* mutant: a win returns the payout, the stake not taken off
calculate_profit_loss_payout(stake, odds, result) ==
    IF result = "Win" THEN stake * odds
    ELSE IF result = "Loss" THEN -(stake * One)
    ELSE 0

\* mutant: a push is settled like a loss
calculate_profit_loss_push_lost(stake, odds, result) ==
    IF result = "Win" THEN (stake * odds) - stake * One
    ELSE IF result \in {"Loss", "Push"} THEN -(stake * One)
    ELSE 0

\* (stake * odds) - stake, in hundredths of a currency unit
calculate_profit_loss(stake, odds, result) ==
    IF result = "Win" THEN (stake * odds) - stake * One
    ELSE IF result = "Loss" THEN -(stake * One)
    ELSE 0

\* mutant: a stake of zero passes
validate_bet_input_zero_stake(stake, odds, result) ==
    (IF stake < 0 THEN <<"Stake must be positive">> ELSE <<>>)
    \o (IF odds < One THEN <<"Odds must be at least 1.0">> ELSE <<>>)
    \o (IF result \notin {"Pending", "Win", "Loss", "Push"}
        THEN <<"Invalid result">> ELSE <<>>)

\* mutant: the checks are chained, only the first violated rule is reported
validate_bet_input_first_only(stake, odds, result) ==
    IF stake <= 0 THEN <<"Stake must be positive">>
    ELSE IF odds < One THEN <<"Odds must be at least 1.0">>
    ELSE IF result \notin {"Pending", "Win", "Loss", "Push"}
    THEN <<"Invalid result">> ELSE <<>>

validate_bet_input(stake, odds, result) ==
    (IF stake <= 0 THEN <<"Stake must be positive">> ELSE <<>>)
    \o (IF odds < One THEN <<"Odds must be at least 1.0">> ELSE <<>>)
    \o (IF result \notin {"Pending", "Win", "Loss", "Push"}
        THEN <<"Invalid result">> ELSE <<>>)

----------------------------------------------------------------------------
(* Python floats in calculate_parlay_odds.  A float is an IEEE 754 binary64: *)
(* a 53 bit significand m and an exponent e, of value m * 2^e.  The          *)
(* significand and the products of significands are natural numbers written  *)
(* as sequences of 13 bit limbs, least significant limb first.               *)

Limb == 2^13

RECURSIVE BigMulSmall(_, _, _)
\* a * k + carry, for k below 2^17
BigMulSmall(a, k, carry) ==
    IF a = <<>>
    THEN IF carry = 0 THEN <<>>
         ELSE <<carry % Limb>> \o BigMulSmall(<<>>, k, carry \div Limb)
    ELSE LET t == Head(a) * k + carry
         IN  <<t % Limb>> \o BigMulSmall(Tail(a), k, t \div Limb)

RECURSIVE BigAdd(_, _, _)
BigAdd(a, b, carry) ==
    IF a = <<>> /\ b = <<>>
    THEN IF carry = 0 THEN <<>> ELSE <<carry>>
    ELSE LET x == IF a = <<>> THEN 0 ELSE Head(a)
             y == IF b = <<>> THEN 0 ELSE Head(b)
             t == x + y + carry
         IN  <<t % Limb>> \o BigAdd(IF a = <<>> THEN a ELSE Tail(a),
                                    IF b = <<>> THEN b ELSE Tail(b),
                                    t \div Limb)

RECURSIVE BigMul(_, _)
BigMul(a, b) ==
    IF a = <<>> THEN <<>>
    ELSE BigAdd(BigMulSmall(b, Head(a), 0), <<0>> \o BigMul(Tail(a), b), 0)

RECURSIVE BigDivSmall(_, _)
\* quotient (as many limbs as a) and remainder of a by d, for d below 2^17
BigDivSmall(a, d) ==
    IF a = <<>> THEN [q |-> <<>>, r |-> 0]
    ELSE LET hi == BigDivSmall(Tail(a), d)
             t == hi.r * Limb + Head(a)
         IN  [q |-> <<t \div d>> \o hi.q, r |-> t % d]

BigIsZero(a) == \A i \in DOMAIN a : a[i] = 0

RECURSIVE BitLen(_)
BitLen(n) == IF n = 0 THEN 0 ELSE 1 + BitLen(n \div 2)

RECURSIVE BigBits(_)
\* the number of bits of a: 0 for zero
BigBits(a) ==
    IF BigIsZero(a) THEN 0
    ELSE IF a[Len(a)] = 0 THEN BigBits(SubSeq(a, 1, Len(a) - 1))
    ELSE 13 * (Len(a) - 1) + BitLen(a[Len(a)])

RECURSIVE BigToInt(_)
BigToInt(a) == IF a = <<>> THEN 0 ELSE Head(a) + Limb * BigToInt(Tail(a))

\* a / 2^s rounded to the nearest natural number, ties to even.  sticky says
\* that the number rounded is a little above a (a was itself cut off)
RoundShift(a, s, sticky) ==
    LET w == s \div 13
        b == s % 13
        low == SubSeq(a, 1, w)
        d == BigDivSmall(SubSeq(a, w + 1, Len(a)), 2^b)
        \* the part cut off, against one half: -1 below, 0 at, 1 above
        cut == IF s = 0 THEN -1
               ELSE IF b > 0
               THEN IF d.r > 2^(b - 1) THEN 1
                    ELSE IF d.r < 2^(b - 1) THEN -1
                    ELSE IF BigIsZero(low) THEN 0 ELSE 1
               ELSE IF low[w] > 2^12 THEN 1
                    ELSE IF low[w] < 2^12 THEN -1
                    ELSE IF BigIsZero(SubSeq(low, 1, w - 1)) THEN 0 ELSE 1
        odd == d.q # <<>> /\ Head(d.q) % 2 = 1
        up == cut = 1 \/ (cut = 0 /\ (sticky \/ odd))
    IN  IF up THEN BigAdd(d.q, <<1>>, 0) ELSE d.q

\* the binary64 nearest to n * 2^e, for a natural number n of 53 bits or
\* more; sticky as in RoundShift
FloatRound(n, e, sticky) ==
    LET s == BigBits(n) - 53
        m == IF s > 0 THEN RoundShift(n, s, sticky)
             ELSE n
    IN  IF BigBits(m) = 54
        THEN [m |-> BigDivSmall(m, 2).q, e |-> e + s + 1]
        ELSE [m |-> m, e |-> e + s]

\* the float of a decimal literal with two decimals, h hundredths (h > 0):
\* the binary64 nearest to h / 100
FloatOf(h) ==
    LET d == BigDivSmall(BigMulSmall(<<0, 0, 0, 0, 0>>  \o <<1>>, h, 0), 100)
    IN  FloatRound(d.q, -65, d.r # 0)

\* x * y, rounded to nearest, ties to even
FloatMul(x, y) == FloatRound(BigMul(x.m, y.m), x.e + y.e, FALSE)

RECURSIVE reduce_mul(_, _)
\* reduce(operator.mul, [leg['odds'] for leg in legs], initial)
reduce_mul(legs, initial) ==
    IF legs = <<>> THEN initial
    ELSE reduce_mul(Tail(legs), FloatMul(initial, FloatOf(Head(legs).odds)))

\* round(x, 2): the exact value of x rounded to two decimals, ties to even;
\* returned in hundredths
Round2(x) == BigToInt(RoundShift(BigMulSmall(x.m, 100, 0), -x.e, FALSE))

calculate_parlay_odds(legs) ==
    IF legs = <<>> THEN One
    ELSE Round2(reduce_mul(legs, FloatOf(One)))

----------------------------------------------------------------------------
(* json.dumps of the list of parlay legs *)

\* repr of a float that has at most two decimals: 1.5, 2.0, 1.25, 1.05
JsonFloat(h) ==
    LET frac == h % One
    IN  ToString(h \div One) \o "." \o
        (IF frac % 10 = 0 THEN ToString(frac \div 10)
         ELSE IF frac < 10 THEN "0" \o ToString(frac)
         ELSE ToString(frac))

JsonLeg(leg) ==
    "{\"team_a\": \"" \o leg.team_a \o "\", \"team_b\": \"" \o leg.team_b
    \o "\", \"bet_type\": \"" \o leg.bet_type \o "\", \"sport\": \"" \o leg.sport
    \o "\", \"odds\": " \o JsonFloat(leg.odds)
    \o ", \"notes\": \"" \o leg.notes \o "\"}"

RECURSIVE JsonItems(_)
JsonItems(legs) ==
    IF legs = <<>> THEN ""
    ELSE IF Len(legs) = 1 THEN JsonLeg(Head(legs))
    ELSE JsonLeg(Head(legs)) \o ", " \o JsonItems(Tail(legs))

json_dumps(legs) == "[" \o JsonItems(legs) \o "]"

\* parlay_legs_str: None unless parlay_legs is a non-empty list.  The
\* argument's default None and the empty list take the same branch; both are
\* the empty sequence here
parlay_legs_str(parlay_legs) ==
    IF parlay_legs # <<>> THEN Text(json_dumps(parlay_legs)) ELSE Null

----------------------------------------------------------------------------
(* Inputs explored.  A field set F is the argument list of add_bet and      *)
(* update_bet after bet_id.                                                 *)

Results == {"Pending", "Win", "Loss", "Push"}

LegA == [team_a |-> "Ajax", team_b |-> "Basel", bet_type |-> "Moneyline",
         sport |-> "Soccer", odds |-> 150, notes |-> ""]

LegB == [team_a |-> "Celta", team_b |-> "Derby", bet_type |-> "Handicap",
         sport |-> "Tennis", odds |-> 200, notes |-> "away"]

\* what the single bet form submits (result filled in below)
SingleForm ==
    [date |-> "2024-01-01", team_a |-> "Ajax", team_b |-> "Basel",
     bet_type |-> "Over/Under", sport |-> "Soccer", stake |-> 10, odds |-> 250,
     result |-> "Pending", notes |-> "n1", is_parlay |-> FALSE,
     parlay_legs |-> <<>>]

\* what the parlay form submits: team_a "Parlay", team_b "<n> legs", the
\* combined odds of the session's legs, and the legs
ParlayForm ==
    [date |-> "2024-02-02", team_a |-> "Parlay", team_b |-> "2 legs",
     bet_type |-> "Parlay", sport |-> "Mixed", stake |-> 20,
     odds |-> calculate_parlay_odds(<<LegA, LegB>>),
     result |-> "Pending", notes |-> "n2", is_parlay |-> TRUE,
     parlay_legs |-> <<LegA, LegB>>]

ValidInputs ==
    {[f EXCEPT !.result = r] : f \in {SingleForm, ParlayForm}, r \in Results}

\* calls that break one rule each, and one that breaks all three
InvalidInputs ==
    { [SingleForm EXCEPT !.stake = 0],
      [SingleForm EXCEPT !.odds = One - 1],
      [SingleForm EXCEPT !.result = "X"],
      [ParlayForm EXCEPT !.stake = -5, !.odds = 50, !.result = "X"] }

BetInputs == ValidInputs \cup InvalidInputs

BetIds == 1..MaxId

NoArgs ==
    [date |-> "", team_a |-> "", team_b |-> "", bet_type |-> "", sport |-> "",
     stake |-> 0, odds |-> 0, result |-> "", notes |-> "", is_parlay |-> FALSE,
     parlay_legs |-> <<>>]

\* what a call hands back: op and outcome, the id and arguments it was given
\* (for add_bet the id of the row made), and the value it returned (0 for a
\* call that returns None)
Call(op, outcome, id, args) ==
    [op |-> op, outcome |-> outcome, id |-> id, args |-> args, ret |-> 0]

\* the browser tabs, and a tab that has not run the script
Tabs == {1, 2}

NoSession ==
    [pc |-> "idle", call |-> Call("none", "ok", 0, NoArgs),
     current_bankroll |-> 0, pending |-> <<>>]

NoTabs == [t \in Tabs |-> NoSession]

----------------------------------------------------------------------------
(* Bet ledger store *)

\* the parameter tuple of the INSERT and the UPDATE statements, by column
BoundValues(F) ==
    [date |-> Text(F.date),
     team_a |-> Text(F.team_a),
     team_b |-> Text(F.team_b),
     bet_type |-> Text(F.bet_type),
     sport |-> Text(F.sport),
     stake |-> Num(F.stake),
     odds |-> Num(F.odds),
     result |-> Text(F.result),
     profit_loss |-> Num(calculate_profit_loss(F.stake, F.odds, F.result)),
     notes |-> Text(F.notes),
     is_parlay |-> Num(IF F.is_parlay THEN 1 ELSE 0),
     parlay_legs |-> parlay_legs_str(F.parlay_legs)]

\* the columns both statements name
BoundColumns ==
    {"date", "team_a", "team_b", "bet_type", "sport", "stake", "odds", "result",
     "profit_loss", "notes", "is_parlay", "parlay_legs"}

\* INSERT INTO bets (date, ..., parlay_legs) VALUES (...): id is AUTOINCREMENT,
\* a column the statement does not name is NULL
InsertBet(b, F) ==
    LET id == b.seq + 1
        v == BoundValues(F)
        row == [c \in Range(b.columns) |->
                   IF c = "id" THEN Num(id)
                   ELSE IF c \in BoundColumns THEN v[c] ELSE Null]
    IN  [b EXCEPT !.seq = id,
                  !.rows = [i \in (DOMAIN b.rows) \cup {id} |->
                               IF i = id THEN row ELSE b.rows[i]]]

\* UPDATE bets SET date=?, ..., parlay_legs=? WHERE id=?
UpdateBetRow(b, bet_id, F) ==
    IF bet_id \notin DOMAIN b.rows THEN b
    ELSE LET v == BoundValues(F)
         IN  [b EXCEPT !.rows[bet_id] =
                 [c \in DOMAIN b.rows[bet_id] |->
                     IF c \in BoundColumns THEN v[c] ELSE b.rows[bet_id][c]]]

\* mutant: the DELETE has lost its WHERE clause
DeleteBetRow_every_row(b, bet_id) ==
    [b EXCEPT !.rows = <<>>]

\* DELETE FROM bets WHERE id = ?
DeleteBetRow(b, bet_id) ==
    [b EXCEPT !.rows = [i \in (DOMAIN b.rows) \ {bet_id} |-> b.rows[i]]]

\* get_bet_by_id: SELECT * gives the row in the table's column order; the
\* fixed name list is zipped onto it (zip stops at the shorter of the two).
\* found is FALSE for the None it returns when no row has the id
get_bet_by_id(b, bet_id) ==
    IF bet_id \in DOMAIN b.rows
    THEN [found |-> TRUE,
          bet |-> LET n == Min(Len(columns_of_get_bet), Len(b.columns))
                  IN  [k \in {columns_of_get_bet[i] : i \in 1..n} |->
                          b.rows[bet_id][b.columns[IndexOf(columns_of_get_bet, k)]]]]
    ELSE [found |-> FALSE, bet |-> [k \in {} |-> Null]]

\* expected_columns of get_bets
expected_columns ==
    <<"id", "date", "team_a", "team_b", "bet_type", "sport", "stake",
      "odds", "result", "profit_loss", "notes", "is_parlay", "parlay_legs">>

\* get_bets: the data frame that SELECT * FROM bets gives, each value under
\* the name of its column, and an expected column that the table lacks
\* filled with "" (the text columns), 0 (is_parlay) or 0.0.  The frame is
\* the set of its rows; the order of the rows (by date, descending) is left
\* out
get_bets(b) ==
    {[c \in Range(b.columns) \cup Range(expected_columns) |->
         IF c \in Range(b.columns) THEN b.rows[i][c]
         ELSE IF c \in {"team_a", "team_b", "bet_type", "sport", "notes", "parlay_legs"}
         THEN Text("")
         ELSE Num(0)] : i \in DOMAIN b.rows}

----------------------------------------------------------------------------
(* Operations *)

init_db ==
    /\ bets' = init_db_bets(bets)
    /\ quotes' = init_db_quotes(quotes)
    /\ bankroll' = init_db_bankroll(bankroll)
    /\ last' = Call("init_db", "ok", 0, NoArgs)
    /\ UNCHANGED tabs

\* mutant: the row is written before the arguments are validated
add_bet_write_first(F) ==
    /\ SchemaReady
    /\ bets.seq < MaxId
    /\ bets' = InsertBet(bets, F)
    /\ last' = Call("add_bet",
                    IF validate_bet_input(F.stake, F.odds, F.result) # <<>>
                    THEN "ValueError" ELSE "ok",
                    bets.seq + 1, F)
    /\ UNCHANGED <<quotes, bankroll, tabs>>

add_bet(F) ==
    /\ SchemaReady
    /\ bets.seq < MaxId
    /\ IF validate_bet_input(F.stake, F.odds, F.result) # <<>>
       THEN /\ last' = Call("add_bet", "ValueError", 0, F)
            /\ UNCHANGED <<bets, quotes, bankroll, tabs>>
       ELSE /\ bets' = InsertBet(bets, F)
            /\ last' = Call("add_bet", "ok", bets.seq + 1, F)
            /\ UNCHANGED <<quotes, bankroll, tabs>>

\* mutant: a settled bet moves the bankroll by its profit or loss
update_bet_settles_bankroll(bet_id, F) ==
    /\ SchemaReady
    /\ IF validate_bet_input(F.stake, F.odds, F.result) # <<>>
       THEN /\ last' = Call("update_bet", "ValueError", bet_id, F)
            /\ UNCHANGED <<bets, quotes, bankroll, tabs>>
       ELSE /\ bets' = UpdateBetRow(bets, bet_id, F)
            /\ bankroll' = [bankroll EXCEPT !.rows[1] =
                  @ + (calculate_profit_loss(F.stake, F.odds, F.result) \div One)]
            /\ last' = Call("update_bet", "ok", bet_id, F)
            /\ UNCHANGED <<quotes, tabs>>

update_bet(bet_id, F) ==
    /\ SchemaReady
    /\ IF validate_bet_input(F.stake, F.odds, F.result) # <<>>
       THEN /\ last' = Call("update_bet", "ValueError", bet_id, F)
            /\ UNCHANGED <<bets, quotes, bankroll, tabs>>
       ELSE /\ bets' = UpdateBetRow(bets, bet_id, F)
            /\ last' = Call("update_bet", "ok", bet_id, F)
            /\ UNCHANGED <<quotes, bankroll, tabs>>

delete_bet(bet_id) ==
    /\ SchemaReady
    /\ bets' = DeleteBetRow(bets, bet_id)
    /\ last' = Call("delete_bet", "ok", bet_id, NoArgs)
    /\ UNCHANGED <<quotes, bankroll, tabs>>

\* the edit bet form of main(): drawn when get_bet_by_id finds the row being
\* edited, its widgets filled from the dict get_bet_by_id returned.  strptime
\* wants a text date, float() and number_input a number that is not below the
\* widget's minimum, list.index a result of the list: anything else raises
\* and the run ends with nothing written.  A select box whose stored value
\* is not among its options shows the first option.  The user picks the
\* result and submits; every other widget keeps the value it was filled
\* with.  update_bet is called with is_parlay but without parlay_legs
edit_bet_form(bet_id, result) ==
    /\ SchemaReady
    /\ get_bet_by_id(bets, bet_id).found
    /\ LET bet == get_bet_by_id(bets, bet_id).bet
           drawn == /\ DOMAIN bet = Range(columns_of_get_bet)
                    /\ \A k \in {"date", "team_a", "team_b", "notes", "result"} :
                          bet[k].t = "text"
                    /\ bet["stake"].t = "num" /\ bet["stake"].n >= 0
                    /\ bet["odds"].t = "num" /\ bet["odds"].n >= One
                    /\ bet["result"].s \in {"Pending", "Win", "Loss", "Push"}
       IN  IF ~drawn
           THEN /\ last' = Call("edit_bet_form", "Exception", bet_id, NoArgs)
                /\ UNCHANGED <<bets, quotes, bankroll, tabs>>
           ELSE update_bet(bet_id,
                   [date |-> bet["date"].s,
                    team_a |-> bet["team_a"].s,
                    team_b |-> bet["team_b"].s,
                    bet_type |-> IF bet["bet_type"].s \in
                                      {"Moneyline", "Over/Under", "Handicap",
                                       "Both Teams to Score", "Correct Score",
                                       "Other", "Parlay"}
                                 THEN bet["bet_type"].s ELSE "Moneyline",
                    sport |-> IF bet["sport"].s \in
                                   {"Soccer", "Basketball", "Tennis", "Football",
                                    "Baseball", "Hockey", "Other", "Mixed"}
                              THEN bet["sport"].s ELSE "Soccer",
                    stake |-> bet["stake"].n,
                    odds |-> bet["odds"].n,
                    result |-> result,
                    notes |-> bet["notes"].s,
                    is_parlay |-> (bet["is_parlay"].n # 0 \/ bet["is_parlay"].s # ""),
                    parlay_legs |-> <<>>])

----------------------------------------------------------------------------
(* Quotes *)

\* datetime.now().isoformat() values explored
Timestamps == {"2024-03-01T10:00:00"}

QuoteTexts == {"Stay disciplined"}

QuoteIds == 1..MaxQuoteId

add_quote(quote_text, category) ==
    /\ SchemaReady
    /\ quotes.seq < MaxQuoteId
    /\ \E now \in Timestamps :
          quotes' = [quotes EXCEPT
              !.seq = quotes.seq + 1,
              !.rows = [i \in (DOMAIN quotes.rows) \cup {quotes.seq + 1} |->
                          IF i = quotes.seq + 1
                          THEN [timestamp |-> now, quote_text |-> quote_text,
                                category |-> category]
                          ELSE quotes.rows[i]]]
    /\ last' = Call("add_quote", "ok", quotes.seq + 1, NoArgs)
    /\ UNCHANGED <<bets, bankroll, tabs>>

delete_quote(quote_id) ==
    /\ SchemaReady
    /\ quotes' = [quotes EXCEPT
                     !.rows = [i \in (DOMAIN quotes.rows) \ {quote_id} |-> quotes.rows[i]]]
    /\ last' = Call("delete_quote", "ok", quote_id, NoArgs)
    /\ UNCHANGED <<bets, bankroll, tabs>>

----------------------------------------------------------------------------
(* Bankroll ledger *)

Amounts == {10}

Operations == {"add", "set", "subtract", "other"}

\* SELECT balance FROM bankroll WHERE id = 1; 0 when there is no row
get_bankroll(k) == IF 1 \in DOMAIN k.rows THEN k.rows[1] ELSE 0

\* mutant: a withdrawal above the balance is refused
BankrollAfter_floor(k, amount, operation) ==
    [k EXCEPT !.rows = [i \in DOMAIN k.rows |->
        IF i # 1 THEN k.rows[i]
        ELSE IF operation = "add" THEN k.rows[i] + amount
        ELSE IF operation = "set" THEN amount
        ELSE IF operation = "subtract" /\ amount <= k.rows[i] THEN k.rows[i] - amount
        ELSE k.rows[i]]]

\* the UPDATE ... WHERE id = 1 that the operation selects; none for an
\* operation that is none of the three
BankrollAfter(k, amount, operation) ==
    [k EXCEPT !.rows = [i \in DOMAIN k.rows |->
        IF i # 1 THEN k.rows[i]
        ELSE IF operation = "add" THEN k.rows[i] + amount
        ELSE IF operation = "set" THEN amount
        ELSE IF operation = "subtract" THEN k.rows[i] - amount
        ELSE k.rows[i]]]

update_bankroll(amount, operation) ==
    /\ SchemaReady
    /\ \A i \in DOMAIN BankrollAfter(bankroll, amount, operation).rows :
          /\ BankrollAfter(bankroll, amount, operation).rows[i] <= MaxBalance
          /\ BankrollAfter(bankroll, amount, operation).rows[i] >= -MaxBalance
    /\ bankroll' = BankrollAfter(bankroll, amount, operation)
    /\ last' = [Call("update_bankroll", "ok", 0, NoArgs) EXCEPT
                   !.args.result = operation, !.ret = amount]
    /\ UNCHANGED <<bets, quotes, tabs>>

----------------------------------------------------------------------------
(* Metrics.  A data frame is the set of its rows.  Money sums (total_pl,     *)
(* biggest_win, biggest_loss) are in hundredths of a currency unit; means    *)
(* and ratios are exact fractions num / den of the value Python computes     *)
(* (odds as a number, money in currency units, rates in percent), in lowest  *)
(* terms with den > 0.  float('inf') is 1 / 0.                               *)

RECURSIVE GCD(_, _)
GCD(a, b) == IF b = 0 THEN a ELSE GCD(b, a % b)

Frac(num, den) ==
    LET g == GCD(IF num < 0 THEN -num ELSE num, den)
    IN  [num |-> num \div g, den |-> den \div g]

Inf == [num |-> 1, den |-> 0]

RECURSIVE SumColumn(_, _)
\* df[c].sum()
SumColumn(df, c) ==
    IF df = {} THEN 0
    ELSE LET r == CHOOSE r \in df : TRUE
         IN  r[c].n + SumColumn(df \ {r}, c)

\* df[c].max() and df[c].min(), of a frame that has rows
MaxColumn(df, c) == CHOOSE x \in {r[c].n : r \in df} : \A r \in df : r[c].n <= x

MinColumn(df, c) == CHOOSE x \in {r[c].n : r \in df} : \A r \in df : r[c].n >= x

\* mutant: the win rate is taken over the bets that are won or lost
calculate_metrics_settled_rate(df) ==
    IF df = {}
    THEN [total_pl |-> 0, roi |-> Frac(0, 1), win_rate |-> Frac(0, 1), total_bets |-> 0]
    ELSE LET total_pl == SumColumn(df, "profit_loss")
             total_stake == SumColumn(df, "stake")
             settled == {r \in df : r["result"].s \in {"Win", "Loss"}}
         IN  [total_pl |-> total_pl,
              roi |-> IF total_stake > 0
                      THEN Frac(total_pl * 100, total_stake * One)
                      ELSE Frac(0, 1),
              win_rate |-> IF settled = {} THEN Frac(0, 1)
                           ELSE Frac(Cardinality({r \in df : r["result"] = Text("Win")}) * 100,
                                     Cardinality(settled)),
              total_bets |-> Cardinality(df)]

\* the tuple (total_pl, roi, win_rate, len(df))
calculate_metrics(df) ==
    IF df = {}
    THEN [total_pl |-> 0, roi |-> Frac(0, 1), win_rate |-> Frac(0, 1), total_bets |-> 0]
    ELSE LET total_pl == SumColumn(df, "profit_loss")
             total_stake == SumColumn(df, "stake")
         IN  [total_pl |-> total_pl,
              roi |-> IF total_stake > 0
                      THEN Frac(total_pl * 100, total_stake * One)
                      ELSE Frac(0, 1),
              win_rate |-> Frac(Cardinality({r \in df : r["result"] = Text("Win")}) * 100,
                                Cardinality(df)),
              total_bets |-> Cardinality(df)]

\* mutant: the stakes of the wins are left out of total_won
profit_factor_net(wins, losses) ==
    LET total_won == IF wins # {} THEN SumColumn(wins, "profit_loss") ELSE 0
        total_lost == IF losses # {} THEN SumColumn(losses, "stake") ELSE 0
    IN  IF total_lost > 0 THEN Frac(total_won, total_lost * One) ELSE Inf

\* total_won, total_lost and profit_factor of calculate_advanced_metrics
profit_factor(wins, losses) ==
    LET total_won == IF wins # {}
                     THEN SumColumn(wins, "profit_loss") + SumColumn(wins, "stake") * One
                     ELSE 0
        total_lost == IF losses # {} THEN SumColumn(losses, "stake") ELSE 0
    IN  IF total_lost > 0 THEN Frac(total_won, total_lost * One) ELSE Inf

\* mutant: a push counts as settled
settled_bets_with_push(df) == {r \in df : r["result"].s \in {"Win", "Loss", "Push"}}

\* df[df['result'].isin(['Win', 'Loss'])]
settled_bets(df) == {r \in df : r["result"].s \in {"Win", "Loss"}}

\* the empty dict
EmptyDict == [k \in {} |-> 0]

calculate_advanced_metrics(df) ==
    IF df = {} THEN EmptyDict
    ELSE IF settled_bets(df) = {} THEN EmptyDict
    ELSE LET settled == settled_bets(df)
             wins == {r \in settled : r["result"] = Text("Win")}
             losses == {r \in settled : r["result"] = Text("Loss")}
         IN  [avg_win_odds |-> IF wins # {}
                               THEN Frac(SumColumn(wins, "odds"), Cardinality(wins) * One)
                               ELSE Frac(0, 1),
              avg_loss_odds |-> IF losses # {}
                                THEN Frac(SumColumn(losses, "odds"), Cardinality(losses) * One)
                                ELSE Frac(0, 1),
              biggest_win |-> MaxColumn(settled, "profit_loss"),
              biggest_loss |-> MinColumn(settled, "profit_loss"),
              expected_value |-> Frac(SumColumn(wins, "profit_loss")
                                        + SumColumn(losses, "profit_loss"),
                                      Cardinality(settled) * One),
              avg_stake |-> Frac(SumColumn(settled, "stake"), Cardinality(settled)),
              profit_factor |-> profit_factor(wins, losses),
              total_settled_bets |-> Cardinality(settled)]

----------------------------------------------------------------------------
(* Specification: a store that init_db creates *)

Init ==
    /\ bets = NoTable
    /\ quotes = [exists |-> FALSE, rows |-> <<>>, seq |-> 0]
    /\ bankroll = NoRows
    /\ last = Call("start", "ok", 0, NoArgs)
    /\ tabs = NoTabs

Next ==
    \/ init_db
    \/ \E F \in BetInputs : add_bet(F)
    \/ \E bet_id \in BetIds, F \in BetInputs : update_bet(bet_id, F)
    \/ \E bet_id \in BetIds, result \in Results : edit_bet_form(bet_id, result)
    \/ \E bet_id \in BetIds : delete_bet(bet_id)
    \/ \E q \in QuoteTexts : add_quote(q, "Motivation")
    \/ \E quote_id \in QuoteIds : delete_quote(quote_id)
    \/ \E amount \in Amounts, operation \in Operations :
          update_bankroll(amount, operation)

Spec == Init /\ [][Next]_vars

----------------------------------------------------------------------------
(* Specification: a store that an older version of the program left behind. *)
(* Its bets table lacks some of new_columns; the other columns are in the   *)
(* order of the present CREATE TABLE.                                       *)

LegacyMissing == {Range(new_columns), {"is_parlay", "parlay_legs"}}

LegacyColumns(missing) ==
    SelectSeq(CreateTableColumns, LAMBDA c : c \notin missing)

LegacyRow(cols) ==
    [c \in Range(cols) |->
        CASE c = "id" -> Num(1)
          [] c = "date" -> Text("2023-05-01")
          [] c = "team_a" -> Text("Home")
          [] c = "team_b" -> Text("Away")
          [] c = "bet_type" -> Text("Handicap")
          [] c = "sport" -> Text("Tennis")
          [] c = "stake" -> Num(50)
          [] c = "odds" -> Num(200)
          [] c = "result" -> Text("Win")
          [] c = "profit_loss" -> Num(5000)
          [] c = "notes" -> Text("old")
          [] OTHER -> Null]

InitLegacy ==
    /\ \E missing \in LegacyMissing, n \in 0..1 :
          bets = [exists |-> TRUE,
                  columns |-> LegacyColumns(missing),
                  rows |-> [i \in 1..n |-> LegacyRow(LegacyColumns(missing))],
                  seq |-> n]
    /\ quotes = [exists |-> FALSE, rows |-> <<>>, seq |-> 0]
    /\ bankroll \in {NoRows, [exists |-> TRUE, rows |-> [i \in {1} |-> MaxBalance]]}
    /\ last = Call("start", "ok", 0, NoArgs)
    /\ tabs = NoTabs

\* the bet arguments explored from these stores: a single bet, a parlay with
\* its legs, and a call that validation refuses
MigrateInputs ==
    {[SingleForm EXCEPT !.result = "Win"],
     [ParlayForm EXCEPT !.result = "Loss"],
     [SingleForm EXCEPT !.stake = 0]}

NextMigrate ==
    \/ init_db
    \/ \E F \in MigrateInputs : add_bet(F)
    \/ \E bet_id \in BetIds, F \in MigrateInputs : update_bet(bet_id, F)
    \/ \E bet_id \in BetIds : edit_bet_form(bet_id, "Win")
    \/ \E bet_id \in BetIds : delete_bet(bet_id)
    \/ \E q \in QuoteTexts : add_quote(q, "Motivation")
    \/ \E quote_id \in QuoteIds : delete_quote(quote_id)
    \/ \E amount \in Amounts, operation \in Operations :
          update_bankroll(amount, operation)

SpecMigrate == (Init \/ InitLegacy) /\ [][NextMigrate]_vars

----------------------------------------------------------------------------
(* Specification: the bet operations alone, with every bet argument         *)
(* explored, on a store that init_db created and that holds a quote and a   *)
(* balance.                                                                 *)

InitBets ==
    /\ bets = init_db_bets(NoTable)
    /\ \E now \in Timestamps, q \in QuoteTexts :
          quotes = [exists |-> TRUE, seq |-> 1,
                    rows |-> [i \in {1} |->
                                [timestamp |-> now, quote_text |-> q,
                                 category |-> "Motivation"]]]
    /\ bankroll \in {BankrollAfter(init_db_bankroll(NoRows), a, "add") : a \in Amounts}
    /\ last = Call("start", "ok", 0, NoArgs)
    /\ tabs = NoTabs

NextBets ==
    \/ init_db
    \/ \E F \in BetInputs : add_bet(F)
    \/ \E bet_id \in BetIds, F \in BetInputs : update_bet(bet_id, F)
    \/ \E bet_id \in BetIds, result \in Results : edit_bet_form(bet_id, result)
    \/ \E bet_id \in BetIds : delete_bet(bet_id)

SpecBets == InitBets /\ [][NextBets]_vars

----------------------------------------------------------------------------
(* Specification: the bankroll ledger beside the bet ledger.  The store     *)
(* starts without tables; single bets of every result are added, updated    *)
(* and deleted, a quote is added, and the balance is adjusted.              *)

BankrollAmounts == Amounts \cup {5}

BankrollInputs == {[SingleForm EXCEPT !.result = r] : r \in Results}

NextBankroll ==
    \/ init_db
    \/ \E F \in BankrollInputs : add_bet(F)
    \/ \E bet_id \in BetIds, F \in BankrollInputs : update_bet(bet_id, F)
    \/ \E bet_id \in BetIds : delete_bet(bet_id)
    \/ \E q \in QuoteTexts : add_quote(q, "Motivation")
    \/ \E amount \in BankrollAmounts, operation \in Operations :
          update_bankroll(amount, operation)

SpecBankroll == Init /\ [][NextBankroll]_vars

----------------------------------------------------------------------------
(* Specification: the pure functions, applied to arguments drawn from       *)
(* bounded sets, beside a store that init_db created and add_bet filled.    *)

Stakes == {-5, 0, 10, 20}

OddsValues == {50, One - 1, One, 150, 250, 300}

ResultValues == Results \cup {"X"}

\* calculate_profit_loss called on its own
settle(stake, odds, result) ==
    /\ last' = [Call("calculate_profit_loss", "ok", 0,
                     [NoArgs EXCEPT !.stake = stake, !.odds = odds, !.result = result])
                EXCEPT !.ret = calculate_profit_loss(stake, odds, result)]
    /\ UNCHANGED <<bets, quotes, bankroll, tabs>>

\* validate_bet_input called on its own
validate(stake, odds, result) ==
    /\ last' = [Call("validate_bet_input", "ok", 0,
                     [NoArgs EXCEPT !.stake = stake, !.odds = odds, !.result = result])
                EXCEPT !.ret = validate_bet_input(stake, odds, result)]
    /\ UNCHANGED <<bets, quotes, bankroll, tabs>>

InitPure ==
    /\ bets \in {init_db_bets(NoTable)} \cup
                {InsertBet(init_db_bets(NoTable), F) : F \in ValidInputs}
    /\ quotes = init_db_quotes([exists |-> FALSE, rows |-> <<>>, seq |-> 0])
    /\ bankroll \in {BankrollAfter(init_db_bankroll(NoRows), a, "add") : a \in {0} \cup Amounts}
    /\ last = Call("start", "ok", 0, NoArgs)
    /\ tabs = NoTabs

NextPure ==
    \/ \E stake \in Stakes, odds \in OddsValues, result \in ResultValues :
          settle(stake, odds, result)
    \/ \E stake \in Stakes, odds \in OddsValues, result \in ResultValues :
          validate(stake, odds, result)

SpecPure == InitPure /\ [][NextPure]_vars

----------------------------------------------------------------------------
(* Specification: the parlay form.  The session holds the legs entered so   *)
(* far (st.session_state.parlay_legs, here the parlay_legs of the start     *)
(* record); the parlay summary combines their odds.                         *)

MaxLegs == 3

\* odds typed into the leg form (its minimum is 1.0), and one below 1.0
LegOdds == {50, One, 105, 120, 125, 150, 200}

RECURSIVE LegLists(_)
\* the leg lists of n legs or fewer
LegLists(n) ==
    IF n = 0 THEN {<<>>}
    ELSE LegLists(n - 1) \cup
         {Append(l, [LegA EXCEPT !.odds = o]) :
             l \in {k \in LegLists(n - 1) : Len(k) = n - 1}, o \in LegOdds}

\* calculate_parlay_odds called on the session's legs
parlay_summary ==
    /\ last.op \in {"start", "calculate_parlay_odds"}
    /\ last' = [Call("calculate_parlay_odds", "ok", 0, last.args)
                EXCEPT !.ret = calculate_parlay_odds(last.args.parlay_legs)]
    /\ UNCHANGED <<bets, quotes, bankroll, tabs>>

InitParlay ==
    /\ bets = init_db_bets(NoTable)
    /\ quotes = init_db_quotes([exists |-> FALSE, rows |-> <<>>, seq |-> 0])
    /\ bankroll = init_db_bankroll(NoRows)
    /\ \E legs \in LegLists(MaxLegs) :
          last = Call("start", "ok", 0, [NoArgs EXCEPT !.parlay_legs = legs])
    /\ tabs = NoTabs

NextParlay == parlay_summary

SpecParlay == InitParlay /\ [][NextParlay]_vars

----------------------------------------------------------------------------
(* Specification: the metrics functions, applied to a data frame.  The      *)
(* frame is the argument of the start record; it is get_bets of a table of  *)
(* up to MaxId rows, of stakes 0, 50 and 100, odds 2.0 and 3.0 and every    *)
(* result.                                                                  *)

MetricInputs ==
    {[SingleForm EXCEPT !.stake = stake, !.odds = odds, !.result = result] :
        stake \in {0, 50, 100}, odds \in {200, 300}, result \in Results}

RECURSIVE Ledgers(_)
\* the bets tables of n rows or fewer
Ledgers(n) ==
    IF n = 0 THEN {init_db_bets(NoTable)}
    ELSE Ledgers(n - 1) \cup
         {InsertBet(b, F) : b \in {t \in Ledgers(n - 1) : t.seq = n - 1},
                            F \in MetricInputs}

metrics ==
    /\ last.op \in {"start", "calculate_metrics", "calculate_advanced_metrics"}
    /\ last' = [Call("calculate_metrics", "ok", 0, last.args)
                EXCEPT !.ret = calculate_metrics(last.args)]
    /\ UNCHANGED <<bets, quotes, bankroll, tabs>>

advanced_metrics ==
    /\ last.op \in {"start", "calculate_metrics", "calculate_advanced_metrics"}
    /\ last' = [Call("calculate_advanced_metrics", "ok", 0, last.args)
                EXCEPT !.ret = calculate_advanced_metrics(last.args)]
    /\ UNCHANGED <<bets, quotes, bankroll, tabs>>

InitMetrics ==
    /\ bets = init_db_bets(NoTable)
    /\ quotes = init_db_quotes([exists |-> FALSE, rows |-> <<>>, seq |-> 0])
    /\ bankroll = init_db_bankroll(NoRows)
    /\ \E b \in Ledgers(MaxId) : last = Call("start", "ok", 0, get_bets(b))
    /\ tabs = NoTabs

NextMetrics == metrics \/ advanced_metrics

SpecMetrics == InitMetrics /\ [][NextMetrics]_vars

----------------------------------------------------------------------------
(* Specification: two browser tabs on one store.  Each tab is a session     *)
(* that runs the script on its own thread; a tab draws the page, the user   *)
(* submits one form, and the function the form calls connects, executes     *)
(* its one statement and commits.  The steps of the two tabs interleave.    *)
(* sqlite lets one connection at a time hold the database's write lock:     *)
(* a statement that writes takes the lock, the commit releases it, and a    *)
(* statement of another connection waits until then.                        *)

\* the calls a form can make: the three bankroll forms, the edit form
\* (update_bet), the bet forms (add_bet) and the delete button
TabCalls ==
    {[Call("update_bankroll", "ok", 0, NoArgs) EXCEPT
         !.args.result = operation, !.ret = amount] :
        amount \in BankrollAmounts, operation \in {"add", "subtract", "set"}}
    \cup {Call("update_bet", "ok", 1, F) : F \in MigrateInputs}
    \cup {Call("add_bet", "ok", 0, F) : F \in MigrateInputs}
    \cup {Call("delete_bet", "ok", 1, NoArgs)}

\* the validation that add_bet and update_bet run before they connect
Refused(call) ==
    /\ call.op \in {"add_bet", "update_bet"}
    /\ validate_bet_input(call.args.stake, call.args.odds, call.args.result) # <<>>

\* the database after the call's statement has run on database db
Statement(call, db) ==
    CASE call.op = "update_bankroll" ->
            [db EXCEPT !.bankroll = BankrollAfter(db.bankroll, call.ret, call.args.result)]
      [] call.op = "update_bet" ->
            [db EXCEPT !.bets = UpdateBetRow(db.bets, call.id, call.args)]
      [] call.op = "add_bet" ->
            [db EXCEPT !.bets = InsertBet(db.bets, call.args)]
      [] call.op = "delete_bet" ->
            [db EXCEPT !.bets = DeleteBetRow(db.bets, call.id)]

\* mutant: the statement works from the balance the tab's page displays
StatementReads_as_displayed(t) ==
    [bets |-> bets, quotes |-> quotes,
     bankroll |-> [bankroll EXCEPT !.rows[1] = tabs[t].current_bankroll]]

\* the database the statement of tab t reads when it runs: the committed
\* one (balance + ? is evaluated by sqlite, inside the statement)
StatementReads(t) == [bets |-> bets, quotes |-> quotes, bankroll |-> bankroll]

\* a run of the script: the page is drawn, current_bankroll = get_bankroll()
tab_render(t) ==
    /\ tabs[t].pc = "idle"
    /\ tabs' = [tabs EXCEPT ![t].pc = "form",
                            ![t].current_bankroll = get_bankroll(bankroll)]
    /\ UNCHANGED <<bets, quotes, bankroll, last>>

\* the user submits a form: the function validates (add_bet, update_bet) and
\* raises, or connects
tab_submit(t, call) ==
    /\ tabs[t].pc = "form"
    /\ IF Refused(call)
       THEN /\ tabs' = [tabs EXCEPT ![t].pc = "done",
                                    ![t].call = [call EXCEPT !.outcome = "ValueError"]]
            /\ last' = [call EXCEPT !.outcome = "ValueError"]
       ELSE /\ tabs' = [tabs EXCEPT ![t].pc = "connected", ![t].call = call]
            /\ UNCHANGED last
    /\ UNCHANGED <<bets, quotes, bankroll>>

\* c.execute(...): waits while another connection holds the write lock, then
\* takes it and runs the statement; the change is not yet committed
tab_execute(t) ==
    /\ tabs[t].pc = "connected"
    /\ \A u \in Tabs \ {t} : tabs[u].pc # "executed"
    /\ tabs' = [tabs EXCEPT ![t].pc = "executed",
                            ![t].pending = Statement(tabs[t].call, StatementReads(t))]
    /\ UNCHANGED <<bets, quotes, bankroll, last>>

\* conn.commit(); conn.close(): the change is in the database, the lock is
\* released and the function returns
tab_commit(t) ==
    /\ tabs[t].pc = "executed"
    /\ bets' = tabs[t].pending.bets
    /\ quotes' = tabs[t].pending.quotes
    /\ bankroll' = tabs[t].pending.bankroll
    /\ tabs' = [tabs EXCEPT ![t].pc = "done", ![t].pending = <<>>]
    /\ last' = tabs[t].call

\* the store the tabs open: a parlay and a single bet stored, a quote, a
\* balance of MaxBalance
TabsStore ==
    [bets |-> InsertBet(InsertBet(init_db_bets(NoTable), ParlayForm), SingleForm),
     quotes |-> [exists |-> TRUE, seq |-> 1,
                 rows |-> [i \in {1} |->
                             [timestamp |-> "2024-03-01T10:00:00",
                              quote_text |-> "Stay disciplined",
                              category |-> "Motivation"]]],
     bankroll |-> BankrollAfter(init_db_bankroll(NoRows), MaxBalance, "set")]

InitTabs ==
    /\ bets = TabsStore.bets
    /\ quotes = TabsStore.quotes
    /\ bankroll = TabsStore.bankroll
    /\ last = Call("start", "ok", 0, NoArgs)
    /\ tabs = NoTabs

NextTabs ==
    \E t \in Tabs :
        \/ tab_render(t)
        \/ \E call \in TabCalls : tab_submit(t, call)
        \/ tab_execute(t)
        \/ tab_commit(t)

SpecTabs == InitTabs /\ [][NextTabs]_vars

----------------------------------------------------------------------------
(* The claims *)

\* the settlement rule as the specification words it
DerivedProfitLoss(stake, odds, result) ==
    CASE result = "Win" -> stake * (odds - One)
      [] result = "Loss" -> -(stake * One)
      [] result \in {"Pending", "Push"} -> 0

\* the validation rules as the specification words them
ValidFields(F) ==
    /\ F.stake > 0
    /\ F.odds >= One
    /\ F.result \in {"Pending", "Win", "Loss", "Push"}

\* the record getBet is to return for field set F stored under id: every
\* field of F, the legs in their stored (serialized) form, absent when F has
\* none, and the derived profit_loss
SubmittedRecord(id, F) ==
    [id |-> Num(id),
     date |-> Text(F.date),
     team_a |-> Text(F.team_a),
     team_b |-> Text(F.team_b),
     bet_type |-> Text(F.bet_type),
     sport |-> Text(F.sport),
     stake |-> Num(F.stake),
     odds |-> Num(F.odds),
     result |-> Text(F.result),
     profit_loss |-> Num(DerivedProfitLoss(F.stake, F.odds, F.result)),
     notes |-> Text(F.notes),
     is_parlay |-> Num(IF F.is_parlay THEN 1 ELSE 0),
     parlay_legs |-> IF F.parlay_legs = <<>> THEN Null
                     ELSE Text(json_dumps(F.parlay_legs))]

RECURSIVE ProductOfOdds(_)
\* the exact product of the legs' odds: num / den
ProductOfOdds(legs) ==
    IF legs = <<>> THEN [num |-> 1, den |-> 1]
    ELSE LET r == ProductOfOdds(Tail(legs))
         IN  [num |-> Head(legs).odds * r.num, den |-> One * r.den]

\* the leg sequences the inputs can store, and the one a stored cell encodes
LegSequences ==
    {<<>>} \cup {<<a>> : a \in {LegA, LegB}}
           \cup {<<a, b>> : a \in {LegA, LegB}, b \in {LegA, LegB}}

StoredLegs(cell) ==
    IF cell.t = "text"
    THEN CHOOSE legs \in LegSequences : json_dumps(legs) = cell.s
    ELSE <<>>

\* C1: in a ledger that started empty, every stored bet record has
\* profit_loss equal to the value derived from its own stored stake, odds
\* and result (Win: stake*(odds-1); Loss: -stake; Pending or Push: 0).
C1_ProfitLossDerived ==
    \A i \in DOMAIN bets.rows :
        LET r == bets.rows[i]
        IN  /\ r["result"].s \in Results
            /\ r["profit_loss"] =
                  Num(DerivedProfitLoss(r["stake"].n, r["odds"].n, r["result"].s))

\* C1 witness: update_bet has just turned a stored bet into a win with a
\* non-zero profit, beside another stored loss
C1_Witness ==
    /\ last.op = "update_bet" /\ last.outcome = "ok"
    /\ last.id \in DOMAIN bets.rows
    /\ bets.rows[last.id]["result"] = Text("Win")
    /\ bets.rows[last.id]["profit_loss"].n > 0
    /\ \E j \in DOMAIN bets.rows : bets.rows[j]["profit_loss"].n < 0

\* C2: in a ledger that started empty, every stored bet record has
\* stake > 0, odds >= 1.0 and a result among Pending, Win, Loss, Push.
C2_StoredBetsValid ==
    \A i \in DOMAIN bets.rows :
        LET r == bets.rows[i]
        IN  /\ r["stake"].t = "num" /\ r["stake"].n > 0
            /\ r["odds"].t = "num" /\ r["odds"].n >= One
            /\ r["result"].t = "text"
            /\ r["result"].s \in {"Pending", "Win", "Loss", "Push"}

\* C2 witness: a call with a zero stake has just been refused while two
\* records are stored
C2_Witness ==
    /\ last.op \in {"add_bet", "update_bet"}
    /\ last.args.stake = 0
    /\ Cardinality(DOMAIN bets.rows) = 2

\* C3: a call of add_bet or update_bet whose stake, odds or result fails
\* validation ends in a validation error and leaves the whole store (bets,
\* quotes, bankroll) exactly as it was.
C3_InvalidCallChangesNothing ==
    [][(last'.op \in {"add_bet", "update_bet"} /\ ~ValidFields(last'.args))
          => (last'.outcome = "ValueError" /\ store' = store)]_vars

\* C3 witness: update_bet on a stored bet has just been refused, with a
\* quote stored and a non-zero balance
C3_Witness ==
    /\ last.op = "update_bet" /\ last.outcome = "ValueError"
    /\ last.id \in DOMAIN bets.rows
    /\ DOMAIN quotes.rows # {}
    /\ get_bankroll(bankroll) # 0

\* C4: update_bet with valid fields and an id that no stored record has
\* ends in a distinct not-found outcome.
C4_UpdateOfMissingIdNotFound ==
    (/\ last.op = "update_bet"
     /\ ValidFields(last.args)
     /\ last.id \notin DOMAIN bets.rows)
        => last.outcome = "NotFound"

\* C5: after update_bet(id, F) on a stored id with a valid F, get_bet_by_id(id)
\* returns exactly F, field by field, with the profit_loss derived from F.
C5_UpdateThenGetReturnsF ==
    (/\ last.op = "update_bet" /\ last.outcome = "ok"
     /\ last.id \in DOMAIN bets.rows)
        => /\ get_bet_by_id(bets, last.id).found
           /\ get_bet_by_id(bets, last.id).bet = SubmittedRecord(last.id, last.args)

\* C6: add_bet(F) with a valid F creates exactly one new record under a fresh
\* id, get_bet_by_id of that id returns every field of F with the derived
\* profit_loss, and the records stored before are unchanged.
C6_AddThenGetReturnsF ==
    [][(last'.op = "add_bet" /\ last'.outcome = "ok")
          => /\ last'.id \notin DOMAIN bets.rows
             /\ \A i \in DOMAIN bets.rows : last'.id > i
             /\ DOMAIN bets'.rows = (DOMAIN bets.rows) \cup {last'.id}
             /\ \A i \in DOMAIN bets.rows : bets'.rows[i] = bets.rows[i]
             /\ get_bet_by_id(bets', last'.id).found
             /\ get_bet_by_id(bets', last'.id).bet
                   = SubmittedRecord(last'.id, last'.args)]_vars

\* C7: every stored record with is_parlay true has odds equal to the product
\* of the odds of its stored parlay legs, rounded to two decimals.
C7_ParlayOddsAreCombinedLegOdds ==
    \A i \in DOMAIN bets.rows :
        bets.rows[i]["is_parlay"] = Num(1)
            => bets.rows[i]["odds"] =
                  Num(calculate_parlay_odds(StoredLegs(bets.rows[i]["parlay_legs"])))

\* the neutral default of an additive column
NeutralDefault(c) == IF c = "is_parlay" THEN Num(0) ELSE Text("")

\* C8: when init_db runs on a bets table that lacks some of the additive
\* columns, each missing column is added, every row that existed holds the
\* neutral default in it (empty string, 0 for is_parlay), and the values of
\* the columns that existed are unchanged.
C8_MigrationFillsNeutralDefaults ==
    [][(last'.op = "init_db" /\ bets.exists)
          => \A c \in Range(new_columns) \ Range(bets.columns) :
                /\ c \in Range(bets'.columns)
                /\ DOMAIN bets'.rows = DOMAIN bets.rows
                /\ \A i \in DOMAIN bets.rows :
                      /\ bets'.rows[i][c] = NeutralDefault(c)
                      /\ \A k \in DOMAIN bets.rows[i] :
                            bets'.rows[i][k] = bets.rows[i][k]]_vars

\* C9: once init_db has run, a later run of it leaves the column set, every
\* bet row, every quote row and the balance unchanged; any run of it creates
\* the bankroll row with balance 0 when the row is absent and keeps the
\* balance of a row that exists.
C9_InitDbIdempotent ==
    [][last'.op = "init_db"
          => /\ last.op # "start" => store' = store
             /\ 1 \in DOMAIN bankroll'.rows
             /\ bankroll'.rows[1] =
                   IF 1 \in DOMAIN bankroll.rows THEN bankroll.rows[1] ELSE 0]_vars

\* C9 witness: init_db has just run on a store that holds a bet, a quote and
\* a non-zero balance
C9_Witness ==
    /\ last.op = "init_db"
    /\ DOMAIN bets.rows # {}
    /\ DOMAIN quotes.rows # {}
    /\ get_bankroll(bankroll) # 0

\* C10: for stake > 0 and odds >= 1.0, calculate_profit_loss returns
\* stake*(odds-1) for Win, -stake for Loss and 0 for Push and for Pending,
\* and the store is as it was.
C10_SettleValues ==
    [][(/\ last'.op = "calculate_profit_loss"
        /\ last'.args.stake > 0 /\ last'.args.odds >= One
        /\ last'.args.result \in {"Win", "Loss", "Push", "Pending"})
          => /\ last'.ret = (CASE last'.args.result = "Win" ->
                                    last'.args.stake * (last'.args.odds - One)
                               [] last'.args.result = "Loss" ->
                                    -(last'.args.stake * One)
                               [] OTHER -> 0)
             /\ store' = store]_vars

\* C10 witness: a win at odds 2.5 on a stake of 10 has just been settled at
\* 15.00, beside a store that holds a bet
C10_Witness ==
    /\ last.op = "calculate_profit_loss"
    /\ last.args.result = "Win" /\ last.args.stake = 10 /\ last.args.odds = 250
    /\ last.ret = 1500
    /\ DOMAIN bets.rows # {}

\* C11: validate_bet_input returns one violation for each violated rule among
\* stake <= 0, odds < 1.0 and result outside {Pending, Win, Loss, Push}, all
\* of them together (three when all three are violated), and the empty list
\* exactly when no rule is violated.
C11_ValidateReportsEveryViolation ==
    last.op = "validate_bet_input"
        => LET a == last.args
               v == last.ret
               Count(broken) == IF broken THEN 1 ELSE 0
           IN  /\ Len(v) = Count(a.stake <= 0) + Count(a.odds < One)
                           + Count(a.result \notin {"Pending", "Win", "Loss", "Push"})
               /\ Cardinality(Range(v)) = Len(v)
               /\ ("Stake must be positive" \in Range(v)) <=> (a.stake <= 0)
               /\ ("Odds must be at least 1.0" \in Range(v)) <=> (a.odds < One)
               /\ ("Invalid result" \in Range(v))
                     <=> (a.result \notin {"Pending", "Win", "Loss", "Push"})
               /\ (v = <<>>) <=> ValidFields(a)

\* C11 witness: stake -5, odds 0.5 and result "X" have just been validated
\* and three violations came back
C11_Witness ==
    /\ last.op = "validate_bet_input"
    /\ last.args.stake = -5 /\ last.args.odds = 50 /\ last.args.result = "X"
    /\ Len(last.ret) = 3

\* the orders in which the legs of a list can be entered
Reorderings(legs) ==
    {[i \in DOMAIN legs |-> legs[f[i]]] :
        f \in {g \in [DOMAIN legs -> DOMAIN legs] :
                  \A i, j \in DOMAIN legs : i # j => g[i] # g[j]}}

\* r hundredths is the exact product num/den rounded to two decimals: no
\* other number of hundredths is nearer (either way on a tie).  den is a
\* power of One
NearestHundredth(r, num, den) ==
    IF den = 1 THEN r = num * One
    ELSE LET diff == r * (den \div One) - num
         IN  2 * diff <= den \div One /\ 2 * diff >= -(den \div One)

\* C12: calculate_parlay_odds returns 1.0 for an empty leg list and otherwise
\* the product of the legs' odds rounded to two decimals; the result is the
\* same in whatever order the legs are listed, and it is not below 1.0 when
\* every leg has odds of at least 1.0.
C12_CombinedOddsOrderIndependent ==
    last.op = "calculate_parlay_odds"
        => LET legs == last.args.parlay_legs
               p == ProductOfOdds(legs)
           IN  /\ legs = <<>> => last.ret = One
               /\ NearestHundredth(last.ret, p.num, p.den)
               /\ (\A i \in DOMAIN legs : legs[i].odds >= One) => last.ret >= One
               /\ \A other \in Reorderings(legs) :
                     calculate_parlay_odds(other) = last.ret

\* adjustBalance as the specification words it
Adjusted(b, op, a) ==
    CASE op = "add" -> b + a
      [] op = "subtract" -> b - a
      [] op = "set" -> a

\* C13: the balance is 0 when init_db creates it; each update_bankroll call
\* with add, subtract or set succeeds and moves the balance b to b + a,
\* b - a or a, also when the subtraction leaves it negative; no other call
\* moves it.  So get_bankroll returns the adjustments applied in order to 0.
C13_BalanceFollowsAdjustments ==
    [][/\ (last'.op = "update_bankroll"
            /\ last'.args.result \in {"add", "subtract", "set"})
          => /\ last'.outcome = "ok"
             /\ get_bankroll(bankroll') =
                   Adjusted(get_bankroll(bankroll), last'.args.result, last'.ret)
       /\ (last'.op = "init_db" /\ ~bankroll.exists)
          => get_bankroll(bankroll') = 0
       /\ (last'.op # "update_bankroll" /\ bankroll.exists)
          => get_bankroll(bankroll') = get_bankroll(bankroll)]_vars

\* C13 witness: a subtraction has just left the balance negative
C13_Witness ==
    /\ last.op = "update_bankroll" /\ last.args.result = "subtract"
    /\ get_bankroll(bankroll) < 0

\* C14: add_bet, update_bet and delete_bet leave the bankroll as it was,
\* whatever the result of the bet; update_bankroll leaves every bet row and
\* every quote as it was.
C14_BankrollIndependentOfBets ==
    [][/\ last'.op \in {"add_bet", "update_bet", "delete_bet"}
          => bankroll' = bankroll
       /\ last'.op = "update_bankroll"
          => bets' = bets /\ quotes' = quotes]_vars

\* C14 witness: a stored bet has just been updated to a win while the
\* balance is not zero and a quote is stored
C14_Witness ==
    /\ last.op = "update_bet" /\ last.outcome = "ok"
    /\ last.id \in DOMAIN bets.rows
    /\ bets.rows[last.id]["result"] = Text("Win")
    /\ get_bankroll(bankroll) # 0
    /\ DOMAIN quotes.rows # {}

\* C15: delete_bet(id) succeeds whatever the id; afterwards get_bet_by_id(id)
\* finds nothing and get_bets has no row with that id, and every other bet
\* row, every quote and the balance are as they were.
C15_DeleteRemovesOnlyThatBet ==
    [][last'.op = "delete_bet"
          => /\ last'.outcome = "ok"
             /\ ~get_bet_by_id(bets', last'.id).found
             /\ \A row \in get_bets(bets') : row["id"] # Num(last'.id)
             /\ DOMAIN bets'.rows = (DOMAIN bets.rows) \ {last'.id}
             /\ \A i \in DOMAIN bets'.rows : bets'.rows[i] = bets.rows[i]
             /\ get_bets(bets') =
                   {row \in get_bets(bets) : row["id"] # Num(last'.id)}
             /\ quotes' = quotes
             /\ bankroll' = bankroll]_vars

\* C15 witness: a bet that was stored has just been deleted; another bet, a
\* quote and a balance that is not zero are left
C15_Witness ==
    /\ last.op = "delete_bet"
    /\ last.id <= bets.seq /\ last.id \notin DOMAIN bets.rows
    /\ DOMAIN bets.rows # {}
    /\ DOMAIN quotes.rows # {}
    /\ get_bankroll(bankroll) # 0

\* C20: once init_db has brought a bets table to the full column set,
\* get_bet_by_id returns, for every stored id, each column's stored value
\* under that column's name, the same values as the row of get_bets with
\* that id.
C20_GetBetAgreesWithGetBets ==
    SchemaReady
        => \A i \in DOMAIN bets.rows :
              LET g == get_bet_by_id(bets, i)
              IN  /\ g.found
                  /\ DOMAIN g.bet = Range(columns_of_get_bet)
                  /\ \A c \in DOMAIN g.bet : g.bet[c] = bets.rows[i][c]
                  /\ \E row \in get_bets(bets) :
                        /\ row["id"] = Num(i)
                        /\ \A c \in DOMAIN g.bet : g.bet[c] = row[c]

\* the records of a snapshot with one of the results given
WithResult(df, results) == {r \in df : r["result"].t = "text" /\ r["result"].s \in results}

RECURSIVE Total(_, _)
\* the sum of a field over the records of a snapshot
Total(df, field) ==
    IF df = {} THEN 0
    ELSE LET r == CHOOSE x \in df : TRUE
         IN  r[field].n + Total(df \ {r}, field)

\* the statistics the specification defines over the settled records
SettledStatistics(df) ==
    LET S == WithResult(df, {"Win", "Loss"})
        W == WithResult(df, {"Win"})
        L == WithResult(df, {"Loss"})
    IN  [avg_win_odds |-> IF W = {} THEN Frac(0, 1)
                          ELSE Frac(Total(W, "odds"), Cardinality(W) * One),
         avg_loss_odds |-> IF L = {} THEN Frac(0, 1)
                           ELSE Frac(Total(L, "odds"), Cardinality(L) * One),
         biggest_win |-> CHOOSE x \in {r["profit_loss"].n : r \in S} :
                            \A r \in S : r["profit_loss"].n <= x,
         biggest_loss |-> CHOOSE x \in {r["profit_loss"].n : r \in S} :
                             \A r \in S : r["profit_loss"].n >= x,
         expected_value |-> Frac(Total(S, "profit_loss"), Cardinality(S) * One),
         avg_stake |-> Frac(Total(S, "stake"), Cardinality(S)),
         total_settled_bets |-> Cardinality(S)]

\* C17: calculate_advanced_metrics returns the empty dict exactly when the
\* snapshot has no record with result Win or Loss, Pending and Push records
\* or not; otherwise it returns every statistic, each computed over the Win
\* and Loss records alone.
C17_AdvancedMetricsOverSettledOnly ==
    last.op = "calculate_advanced_metrics"
        => LET df == last.args
               m == last.ret
               S == WithResult(df, {"Win", "Loss"})
           IN  /\ (DOMAIN m = {}) <=> (S = {})
               /\ S # {} =>
                     /\ DOMAIN m = DOMAIN SettledStatistics(df) \cup {"profit_factor"}
                     /\ \A k \in DOMAIN SettledStatistics(df) :
                           m[k] = SettledStatistics(df)[k]

\* C17 witness: the advanced metrics of a snapshot with a push and a win
\* have just been computed, over one settled record
C17_Witness ==
    /\ last.op = "calculate_advanced_metrics"
    /\ Cardinality(last.args) = 2
    /\ WithResult(last.args, {"Push"}) # {}
    /\ WithResult(last.args, {"Win"}) # {}
    /\ DOMAIN last.ret # {}
    /\ last.ret.total_settled_bets = 1

\* C18: for a snapshot with a Win or Loss record, profit factor is (sum of the
\* wins' profit_loss + sum of the wins' stake) / (sum of the losses' stake),
\* and infinite when the losses' stakes sum to 0 and there is a win.
C18_ProfitFactor ==
    (last.op = "calculate_advanced_metrics"
     /\ WithResult(last.args, {"Win", "Loss"}) # {})
        => LET W == WithResult(last.args, {"Win"})
               lost == Total(WithResult(last.args, {"Loss"}), "stake")
               won == Total(W, "profit_loss") + Total(W, "stake") * One
           IN  /\ DOMAIN last.ret # {}
               /\ lost > 0 => last.ret.profit_factor = Frac(won, lost * One)
               /\ (lost = 0 /\ W # {}) => last.ret.profit_factor = Inf

\* C18 witness: a win of stake 100 at odds 2.0 and a loss of stake 50 have
\* just given the profit factor 4.0
C18_Witness ==
    /\ last.op = "calculate_advanced_metrics"
    /\ Cardinality(last.args) = 2
    /\ \E r \in last.args :
          r["result"] = Text("Win") /\ r["stake"] = Num(100) /\ r["odds"] = Num(200)
    /\ \E r \in last.args : r["result"] = Text("Loss") /\ r["stake"] = Num(50)
    /\ last.ret.profit_factor = [num |-> 4, den |-> 1]

\* C19: calculate_metrics returns the sum of profit_loss, the ROI (total
\* profit/loss / total stake * 100, and 0 when the total stake is 0), the win
\* rate (100 * the number of Win records / the number of all records) and
\* the number of records.
C19_BasicMetrics ==
    last.op = "calculate_metrics"
        => LET df == last.args
               m == last.ret
               pl == Total(df, "profit_loss")
               stake == Total(df, "stake")
           IN  /\ m.total_pl = pl
               /\ m.roi = IF stake = 0 THEN Frac(0, 1)
                          ELSE Frac(pl * 100, stake * One)
               /\ df # {} =>
                     m.win_rate = Frac(100 * Cardinality(WithResult(df, {"Win"})),
                                       Cardinality(df))
               /\ m.total_bets = Cardinality(df)

\* C19 witness: the basic metrics of a won bet (stake 100 at odds 2.0) and a
\* pending bet have just been computed: profit 100.00, win rate 50 %
C19_Witness ==
    /\ last.op = "calculate_metrics"
    /\ Cardinality(last.args) = 2
    /\ WithResult(last.args, {"Pending"}) # {}
    /\ last.ret.total_pl = 100 * One
    /\ last.ret.win_rate = [num |-> 50, den |-> 1]

\* the store after the call has run alone, from connect to commit, on db
RunAlone(call, db) == IF Refused(call) THEN db ELSE Statement(call, db)

\* C16: when the two tabs have each made their call, with their steps
\* interleaved in any way, the store is what running the two calls one
\* after the other, in one of the two orders, makes of the store the tabs
\* opened: no add or subtract of the bankroll and no update of a bet is lost.
C16_TabsSerialized ==
    (\A t \in Tabs : tabs[t].pc = "done")
        => [bets |-> bets, quotes |-> quotes, bankroll |-> bankroll]
              \in {RunAlone(tabs[2].call, RunAlone(tabs[1].call, TabsStore)),
                   RunAlone(tabs[1].call, RunAlone(tabs[2].call, TabsStore))}

\* C16 witness: one tab has added 5 and the other subtracted 10, both calls
\* have returned and the balance holds both
C16_Witness ==
    /\ \A t \in Tabs : tabs[t].pc = "done" /\ tabs[t].call.op = "update_bankroll"
    /\ tabs[1].call.args.result = "add" /\ tabs[1].call.ret = 5
    /\ tabs[2].call.args.result = "subtract" /\ tabs[2].call.ret = 10
    /\ get_bankroll(bankroll) = get_bankroll(TabsStore.bankroll) + 5 - 10

====
